---- MODULE Spec2Model ----
(***************************************************************************)
(* Model of hermespy's stochastic multipath fading channel                 *)
(* (src/hermespy/channel/multipath_fading_channel.py).                     *)
(*                                                                         *)
(* Numbers.  Delays are integers counted in ticks of a quarter time unit,  *)
(* sampling rates are integers in samples per time unit, so the product    *)
(* delay * sampling_rate is the integer delay * rate counted in quarter    *)
(* samples.  Powers and finite Rice factors are integers.  +infinity is a  *)
(* tagged value.  A square root is kept exact as the ratio it is the root  *)
(* of.  An Optional value is <<>> (None) or <<v>>.                         *)
(*                                                                         *)
(* The module also models the classes around the channel: BlockInterleaver *)
(* (src/modem/coding/interleaver.py), WaveformGenerator                    *)
(* (src/hermespy/modem/waveform_generator.py), RepetitionEncoder           *)
(* (src/coding/repetition_encoder.py) and Executable                       *)
(* (src/hermespy/core/executable.py).                                      *)
(*                                                                         *)
(* Variables.  channel is the object, or the pair of objects, a            *)
(* specification is about; last is the outcome of the last operation on    *)
(* it, or the history of the calls on each object.  Every specification    *)
(* says in its section what the two hold.                                  *)
(***************************************************************************)
EXTENDS Integers, Sequences, FiniteSets, TLC

VARIABLES channel, last

vars == <<channel, last>>

---------------------------------------------------------------------------
(* Bounds of the model *)

MaxPaths == 2

MaxSamples == 2

---------------------------------------------------------------------------
(* Values *)

None == <<>>

Some(v) == <<v>>

TicksPerUnit == 4

Finite(k) == [inf |-> FALSE, val |-> k]

PosInf == [inf |-> TRUE, val |-> 0]

\* x < 0.0 on a float that may be +inf
IsNegative(x) == (~x.inf) /\ x.val < 0

\* np.isposinf
IsPosInf(x) == x.inf

\* np.sqrt(num / den), kept exact as the ratio under the root
Sqrt(num, den) == [sqnum |-> num, sqden |-> den]

DefaultNumSinusoids == 20

DefaultDopplerFrequency == 0

\* delay_resolution_error = 0.4, in tenths
DelayResolutionErrorTenths == 4

---------------------------------------------------------------------------
(* Argument values the constructor is called with *)

DelayArgs == {-1, 0, 3}

PowerArgs == {-1, 0, 4}

RiceArgs == {Finite(-1), Finite(0), Finite(1), PosInf}

NumSinusoidsArgs == {None, Some(-1), Some(0), Some(2)}

\* the remaining constructor arguments, the same in every call of Spec
PlainArgs ==
    [los_angle : {None},
     doppler_frequency : {None},
     los_doppler_frequency : {None},
     interpolate_signals : {None},
     impulse_response_interpolation : {TRUE},
     gain : {1},
     num_tx : {1},
     num_rx : {1},
     seed : {0}]

SeqsUpTo(S, n) == UNION {[1..k -> S] : k \in 0..n}

---------------------------------------------------------------------------
(* MultipathFadingChannel.__init__ *)

NoChannel == [constructed |-> FALSE]

\* len(delays) != len(power_profile) or len(power_profile) != len(rice_factors)
LengthMismatch(delays, power_profile, rice_factors) ==
    Len(delays) # Len(power_profile) \/ Len(power_profile) # Len(rice_factors)

\* the chain of checks without the one on the power profile
InitRaisesPowerUnchecked(delays, power_profile, rice_factors) ==
    \/ LengthMismatch(delays, power_profile, rice_factors)
    \/ Len(delays) < 1
    \/ \E i \in 1..Len(delays) : delays[i] < 0
    \/ \E i \in 1..Len(rice_factors) : IsNegative(rice_factors[i])

\* the chain of checks with a delay of zero refused as well
InitRaisesZeroDelay(delays, power_profile, rice_factors) ==
    \/ LengthMismatch(delays, power_profile, rice_factors)
    \/ Len(delays) < 1
    \/ \E i \in 1..Len(delays) : delays[i] <= 0
    \/ \E i \in 1..Len(power_profile) : power_profile[i] < 0
    \/ \E i \in 1..Len(rice_factors) : IsNegative(rice_factors[i])

\* the chain of argument checks; TRUE when one of them raises ValueError
InitRaises(delays, power_profile, rice_factors) ==
    \/ LengthMismatch(delays, power_profile, rice_factors)
    \/ Len(delays) < 1
    \/ \E i \in 1..Len(delays) : delays[i] < 0
    \/ \E i \in 1..Len(power_profile) : power_profile[i] < 0
    \/ \E i \in 1..Len(rice_factors) : IsNegative(rice_factors[i])

\* np.argsort(delays): the index vectors that put delays in ascending order
Argsort(delays) ==
    {p \in [1..Len(delays) -> 1..Len(delays)] :
        /\ \A i, j \in 1..Len(delays) : i # j => p[i] # p[j]
        /\ \A i, j \in 1..Len(delays) : i < j => delays[p[i]] <= delays[p[j]]}

\* array[sorting]
Take(array, sorting) == [i \in 1..Len(sorting) |-> array[sorting[i]]]

\* max(self.__delays)
Max(array) == CHOOSE m \in {array[i] : i \in 1..Len(array)} :
    \A i \in 1..Len(array) : array[i] <= m

\* the line-of-sight gain with the root taken of the numerator alone
LosGainRootOfNumerator(k) ==
    IF IsPosInf(k) THEN Sqrt(1, 1) ELSE Sqrt(k.val, (1 + k.val) * (1 + k.val))

\* los_gains[i]: 1.0 where the Rice factor is +inf, sqrt(K / (1 + K)) elsewhere
LosGain(k) == IF IsPosInf(k) THEN Sqrt(1, 1) ELSE Sqrt(k.val, 1 + k.val)

\* non_los_gains[i]: 0.0 where the Rice factor is +inf, 1 / sqrt(1 + K) elsewhere
NonLosGain(k) == IF IsPosInf(k) THEN Sqrt(0, 1) ELSE Sqrt(1, 1 + k.val)

\* self.__num_sinusoids = 20 if num_sinusoids is None else num_sinusoids
InitNumSinusoids(num_sinusoids) ==
    IF num_sinusoids = None THEN DefaultNumSinusoids ELSE num_sinusoids[1]

\* the power profile left in the order it was given in
StoredPowerProfileUnsorted(a, sorting) == a.power_profile

\* self.__power_profile = self.__power_profile[sorting]
StoredPowerProfile(a, sorting) == Take(a.power_profile, sorting)

\* self.doppler_frequency = 0.0 if doppler_frequency is None else doppler_frequency
InitDopplerFrequency(doppler_frequency) ==
    IF doppler_frequency = None THEN DefaultDopplerFrequency ELSE doppler_frequency[1]

\* the instance a successful construction leaves, for one sorting vector
NewChannel(a, sorting) ==
    LET rice == Take(a.rice_factors, sorting) IN
    [constructed |-> TRUE,
     delays |-> Take(a.delays, sorting),
     power_profile |-> StoredPowerProfile(a, sorting),
     rice_factors |-> rice,
     num_sinusoids |-> InitNumSinusoids(a.num_sinusoids),
     los_angle |-> a.los_angle,
     doppler_frequency |-> InitDopplerFrequency(a.doppler_frequency),
     los_doppler_frequency |-> a.los_doppler_frequency,
     interpolate_signals |-> a.interpolate_signals,
     impulse_response_interpolation |-> a.impulse_response_interpolation,
     gain |-> a.gain,
     num_tx |-> a.num_tx,
     num_rx |-> a.num_rx,
     rng |-> a.seed,
     max_delay |-> Max(Take(a.delays, sorting)),
     num_resolvable_paths |-> Len(Take(a.delays, sorting)),
     los_gains |-> [i \in 1..Len(rice) |-> LosGain(rice[i])],
     non_los_gains |-> [i \in 1..Len(rice) |-> NonLosGain(rice[i])]]

\* f and g joined into one record
Join(f, g) ==
    [k \in (DOMAIN f) \cup (DOMAIN g) |-> IF k \in DOMAIN f THEN f[k] ELSE g[k]]

InitArgs ==
    {Join(a, b) :
        a \in [delays : SeqsUpTo(DelayArgs, MaxPaths),
               power_profile : SeqsUpTo(PowerArgs, MaxPaths),
               rice_factors : SeqsUpTo(RiceArgs, MaxPaths),
               num_sinusoids : NumSinusoidsArgs],
        b \in PlainArgs}

\* a constructor call; the outcome of the previous call has been taken note of
Construct ==
    /\ ~channel.constructed
    /\ last.op \in {"none", "del"}
    /\ \E a \in InitArgs :
        IF InitRaises(a.delays, a.power_profile, a.rice_factors)
        THEN /\ channel' = NoChannel
             /\ last' = [op |-> "init", args |-> a, raised |-> "ValueError"]
        ELSE \E sorting \in Argsort(a.delays) :
             /\ channel' = NewChannel(a, sorting)
             /\ last' = [op |-> "init", args |-> a, raised |-> "none"]

\* the caller drops the instance, or the exception of a failed construction
Discard ==
    /\ last.op # "del"
    /\ last.op # "none"
    /\ channel' = NoChannel
    /\ last' = [op |-> "del"]

\* num_sinusoids.setter
SetNumSinusoids ==
    /\ channel.constructed
    /\ \E num \in {-1, 0, 1, 2} :
        IF num < 0
        THEN /\ UNCHANGED channel
             /\ last' = [op |-> "num_sinusoids", arg |-> num, raised |-> "ValueError",
                         before |-> channel.num_sinusoids]
        ELSE /\ channel' = [channel EXCEPT !.num_sinusoids = num]
             /\ last' = [op |-> "num_sinusoids", arg |-> num, raised |-> "none",
                         before |-> channel.num_sinusoids]

-------------------------------------------------------------------------------------------------------------------------------------------------
(* The channel's private random stream, self._rng *)

\* the stream's state after one draw
NextRng(rng) == (5 * rng + 3) % 8

\* the stream's state after n draws
RECURSIVE Advance(_, _)
Advance(rng, n) == IF n <= 0 THEN rng ELSE NextRng(Advance(rng, n - 1))

\* self._rng.uniform(0, 2*pi): an angle in quarter turns, and the stream after it
Uniform(rng) == [value |-> Advance(rng, 1) \div 2, rng |-> Advance(rng, 1)]

\* self._rng.uniform(0, 2*pi, size): size draws one after the other
UniformArray(rng, size) ==
    [values |-> [i \in 1..size |-> Uniform(Advance(rng, i - 1)).value],
     rng |-> Advance(rng, size)]

---------------------------------------------------------------------------
(* MultipathFadingChannel.__tap *)

\* the getter returning the global Doppler frequency whatever was assigned
LosDopplerFrequencyAlwaysGlobal(ch) == ch.doppler_frequency

\* los_doppler_frequency (getter)
LosDopplerFrequency(ch) ==
    IF ch.los_doppler_frequency = None
    THEN ch.doppler_frequency
    ELSE ch.los_doppler_frequency[1]

\* what generating one fading sequence raises: uniform() refuses a negative
\* size, and num_sinusoids ** -.5 divides by zero
TapRaises(ch) ==
    IF ch.num_sinusoids < 0 THEN "ValueError"
    ELSE IF ch.num_sinusoids = 0 THEN "ZeroDivisionError"
    ELSE "none"

\* the draws of one fading sequence counted with a draw for the
\* line-of-sight angle whether or not an angle is configured
TapDrawsWithAngleDraw(ch) ==
    IF ch.num_sinusoids <= 0 THEN 0 ELSE 2 * ch.num_sinusoids + 2

\* the draws one fading sequence takes from the stream before it returns or raises
TapDraws(ch) ==
    IF ch.num_sinusoids <= 0 THEN 0
    ELSE 2 * ch.num_sinusoids + (IF ch.los_angle # None THEN 0 ELSE 1) + 1

\* One fading sequence generated from the stream state rng: the parameters
\* and draws its samples are computed from, in the order they are drawn.
Tap(ch, rng, los_gain, nlos_gain) ==
    LET nlos_angles == UniformArray(rng, ch.num_sinusoids)
        nlos_phases == UniformArray(Advance(rng, ch.num_sinusoids), ch.num_sinusoids)
        los_angle == IF ch.los_angle # None
                     THEN [value |-> ch.los_angle[1],
                           rng |-> Advance(rng, 2 * ch.num_sinusoids)]
                     ELSE Uniform(Advance(rng, 2 * ch.num_sinusoids))
        los_phase == Uniform(Advance(rng, TapDraws(ch) - 1))
    IN  [los_gain |-> los_gain,
         nlos_gain |-> nlos_gain,
         num_sinusoids |-> ch.num_sinusoids,
         nlos_doppler |-> ch.doppler_frequency,
         nlos_angles |-> nlos_angles.values,
         nlos_phases |-> nlos_phases.values,
         los_doppler |-> LosDopplerFrequency(ch),
         los_angle |-> los_angle.value,
         los_phase |-> los_phase.value]

---------------------------------------------------------------------------
(* MultipathFadingChannel.impulse_response *)

\* the delay in samples rounded to the nearest sample
DelayIdxRounded(delay, sampling_rate) ==
    (2 * delay * sampling_rate + TicksPerUnit) \div (2 * TicksPerUnit)

\* the delay cut to whole time units before it is counted in samples
DelayIdxOfWholeUnits(delay, sampling_rate) ==
    (delay \div TicksPerUnit) * sampling_rate

\* int(delay * sampling_rate)
DelayIdx(delay, sampling_rate) == (delay * sampling_rate) \div TicksPerUnit

\* the largest delay in samples rounded to the nearest sample
MaxDelayInSamplesRounded(ch, sampling_rate) ==
    DelayIdxRounded(ch.delays[Len(ch.delays)], sampling_rate)

\* max_delay_in_samples = int(self.__delays[-1] * sampling_rate)
MaxDelayInSamples(ch, sampling_rate) ==
    DelayIdx(ch.delays[Len(ch.delays)], sampling_rate)

\* the shape of np.zeros((num_samples, num_rx, num_tx, max_delay_in_samples + 1))
Shape(ch, num_samples, sampling_rate) ==
    <<num_samples, ch.num_rx, ch.num_tx, MaxDelayInSamples(ch, sampling_rate) + 1>>

\* the index tuples of an array of this shape, counted from 0
Indices(shape) ==
    (0..(shape[1] - 1)) \X (0..(shape[2] - 1)) \X (0..(shape[3] - 1))
        \X (0..(shape[4] - 1))

\* interpolation_filter(sampling_rate)[path_idx, k]: the normalised resampling
\* coefficient of the path's delay at delay-tap k
InterpolationFilter(ch, sampling_rate) ==
    [path_idx \in 1..ch.num_resolvable_paths |->
        [k \in 0..MaxDelayInSamples(ch, sampling_rate) |->
            [delay |-> ch.delays[path_idx], tap |-> k, rate |-> sampling_rate]]]

\* range(n) as a sequence
Range(n) == [i \in 1..n |-> i - 1]

\* itertools.product(xs, ys), the first factor changing slowest
Product(xs, ys) ==
    [k \in 1..(Len(xs) * Len(ys)) |->
        <<xs[((k - 1) \div Len(ys)) + 1], ys[((k - 1) % Len(ys)) + 1]>>]

\* the (rx_idx, tx_idx) pairs the inner loop visits, in order
AntennaPairs(ch) == Product(Range(ch.num_tx), Range(ch.num_rx))

\* the iterations of the two loops, in order: every pair for the first path,
\* then every pair for the next
LoopSteps(ch) ==
    [k \in 1..(ch.num_resolvable_paths * ch.num_tx * ch.num_rx) |->
        [path_idx |-> ((k - 1) \div (ch.num_tx * ch.num_rx)) + 1,
         rx_idx |-> AntennaPairs(ch)[((k - 1) % (ch.num_tx * ch.num_rx)) + 1][1],
         tx_idx |-> AntennaPairs(ch)[((k - 1) % (ch.num_tx * ch.num_rx)) + 1][2]]]

\* whether an iteration's index pair lies in the antenna axes of the tensor
InTensor(shape, step) == step.rx_idx < shape[2] /\ step.tx_idx < shape[3]

\* power ** .5 * self.__tap(timestamps, los_gain, nlos_gain) at time sample t,
\* the sequence being the one generated from the stream state rng
SignalWeight(ch, path_idx, rng, t) ==
    [amplitude |-> Sqrt(ch.power_profile[path_idx], 1),
     path_idx |-> path_idx,
     los_gain |-> ch.los_gains[path_idx],
     nlos_gain |-> ch.non_los_gains[path_idx],
     rng |-> rng,
     sample |-> t]

\* the deposit written with = in place of +=
DepositNearestOverwriting(ch, tensor, step, rng, sampling_rate) ==
    [idx \in DOMAIN tensor |->
        IF /\ idx[2] = step.rx_idx
           /\ idx[3] = step.tx_idx
           /\ idx[4] = DelayIdx(ch.delays[step.path_idx], sampling_rate)
        THEN <<[weight |-> SignalWeight(ch, step.path_idx, rng, idx[1]),
                filter |-> None]>>
        ELSE tensor[idx]]

\* delay_idx = int(self.__delays[path_idx] * sampling_rate)
\* impulse_response[:, rx_idx, tx_idx, delay_idx] += signal_weights
DepositNearest(ch, tensor, step, rng, sampling_rate) ==
    [idx \in DOMAIN tensor |->
        IF /\ idx[2] = step.rx_idx
           /\ idx[3] = step.tx_idx
           /\ idx[4] = DelayIdx(ch.delays[step.path_idx], sampling_rate)
        THEN Append(tensor[idx],
                    [weight |-> SignalWeight(ch, step.path_idx, rng, idx[1]),
                     filter |-> None])
        ELSE tensor[idx]]

\* impulse_response[:, rx_idx, tx_idx, :] += np.outer(signal_weights, filter[path_idx, :])
DepositInterpolated(ch, tensor, step, rng, filter) ==
    [idx \in DOMAIN tensor |->
        IF idx[2] = step.rx_idx /\ idx[3] = step.tx_idx
        THEN Append(tensor[idx],
                    [weight |-> SignalWeight(ch, step.path_idx, rng, idx[1]),
                     filter |-> Some(filter[step.path_idx][idx[4]])])
        ELSE tensor[idx]]

\* One iteration of the inner loop.  acc holds the tensor so far, the
\* stream, the iterations that came to their deposit, and what was raised.
LoopBody(ch, shape, sampling_rate, filter, step, acc) ==
    IF TapRaises(ch) # "none"
    THEN [acc EXCEPT !.raised = TapRaises(ch),
                     !.rng = Advance(acc.rng, TapDraws(ch))]
    ELSE IF ~InTensor(shape, step)
    THEN [acc EXCEPT !.raised = "IndexError",
                     !.rng = Advance(acc.rng, TapDraws(ch)),
                     !.writes = Append(acc.writes, step)]
    ELSE [tensor |-> IF filter # None
                     THEN DepositInterpolated(ch, acc.tensor, step, acc.rng, filter[1])
                     ELSE DepositNearest(ch, acc.tensor, step, acc.rng, sampling_rate),
          rng |-> Advance(acc.rng, TapDraws(ch)),
          writes |-> Append(acc.writes, step),
          raised |-> "none"]

\* the loops from iteration steps[k] on, ended by the first exception
RECURSIVE Loop(_, _, _, _, _, _, _)
Loop(ch, shape, sampling_rate, filter, steps, k, acc) ==
    IF k > Len(steps) \/ acc.raised # "none" THEN acc
    ELSE \* the iteration's result is evaluated once, then the loop goes on
         CHOOSE r \in {Loop(ch, shape, sampling_rate, filter, steps, k + 1, next) :
                          next \in {LoopBody(ch, shape, sampling_rate, filter,
                                             steps[k], acc)}} : TRUE

\* impulse_response(num_samples, sampling_rate) up to the final scaling
Synthesis(ch, num_samples, sampling_rate) ==
    CHOOSE r \in {Loop(ch, v[1], sampling_rate, v[2], v[3], 1,
                       [tensor |-> [idx \in Indices(v[1]) |-> <<>>],
                        rng |-> ch.rng,
                        writes |-> <<>>,
                        raised |-> "none"]) :
                  v \in {<<Shape(ch, num_samples, sampling_rate),
                           IF ch.impulse_response_interpolation
                           THEN Some(InterpolationFilter(ch, sampling_rate))
                           ELSE None,
                           LoopSteps(ch)>>}} : TRUE

\* the tensor returned as it was summed
Unscaled(ch, tensor) ==
    [idx \in DOMAIN tensor |-> [gain |-> 1, sum |-> tensor[idx]]]

\* self.gain * impulse_response
Scaled(ch, tensor) ==
    [idx \in DOMAIN tensor |-> [gain |-> ch.gain, sum |-> tensor[idx]]]

\* what a call of impulse_response leaves to be seen: the stream, the
\* iterations that came to their deposit, and the tensor returned or the
\* exception raised
Returned(ch, num_samples, sampling_rate, done) ==
    [rng |-> done.rng,
     last |-> Join([op |-> "impulse_response",
                    num_samples |-> num_samples,
                    sampling_rate |-> sampling_rate,
                    interpolated |-> ch.impulse_response_interpolation,
                    writes |-> done.writes,
                    raised |-> done.raised],
                   IF done.raised # "none"
                   THEN [raised |-> done.raised]
                   ELSE [shape |-> Shape(ch, num_samples, sampling_rate),
                         tensor |-> Scaled(ch, done.tensor)])]

ImpulseResponseResult(ch, num_samples, sampling_rate) ==
    CHOOSE r \in {Returned(ch, num_samples, sampling_rate, done) :
                     done \in {Synthesis(ch, num_samples, sampling_rate)}} : TRUE

-----
(* MultipathFadingChannel.min_sampling_rate *)

\* np.diff(self.delays)
Diff(delays) == [i \in 1..(Len(delays) - 1) |-> delays[i + 1] - delays[i]]

\* np.min(array) of a non-empty array
Min(array) == CHOOSE m \in {array[i] : i \in 1..Len(array)} :
    \A i \in 1..Len(array) : m <= array[i]

\* the rate taken as one over the smallest gap, without the margin of
\* delay_resolution_error
MinSamplingRateNoMargin(ch) ==
    IF ch.impulse_response_interpolation
    THEN [raised |-> "none", num |-> 0, den |-> 1]
    ELSE IF Diff(ch.delays) = <<>>
    THEN [raised |-> "ValueError"]
    ELSE IF Min(Diff(ch.delays)) = 0
    THEN [raised |-> "none", num |-> 0, den |-> 1]
    ELSE [raised |-> "none",
          num |-> 10 * TicksPerUnit,
          den |-> 10 * Min(Diff(ch.delays))]

\* The property's outcome; the rate is the ratio num / den in samples per
\* time unit.  np.min raises ValueError on the empty array of gaps, and a gap
\* of zero makes min_rate infinite.
MinSamplingRate(ch) ==
    IF ch.impulse_response_interpolation
    THEN [raised |-> "none", num |-> 0, den |-> 1]
    ELSE IF Diff(ch.delays) = <<>>
    THEN [raised |-> "ValueError"]
    ELSE IF Min(Diff(ch.delays)) = 0
    THEN [raised |-> "none", num |-> 0, den |-> 1]
    ELSE [raised |-> "none",
          num |-> (10 - DelayResolutionErrorTenths) * TicksPerUnit,
          den |-> 10 * Min(Diff(ch.delays))]

---------------------------------------------------------------------------
(* Channel.propagate: the linear convolution of the input with the impulse *)
(* response                                                                *)

\* Output sample m of receive antenna r: the products, one for each transmit
\* antenna and delay-tap holding a deposit, of input sample m - d with the
\* tensor entry [m - d, r, t, d].
OutputSample(ch, ir, r, m) ==
    {[tx |-> t, input |-> m - d, entry |-> ir.tensor[<<m - d, r, t, d>>]] :
        <<t, d>> \in {td \in (0..(ch.num_tx - 1)) \X (0..(ir.shape[4] - 1)) :
                        /\ m - td[2] >= 0
                        /\ m - td[2] < ir.shape[1]
                        /\ ir.tensor[<<m - td[2], r, td[1], td[2]>>].sum # <<>>}}

\* the received signal, or the exception of the synthesis
Convolved(ch, num_samples, sampling_rate, ir) ==
    [rng |-> ir.rng,
     last |-> Join([op |-> "propagate",
                    num_samples |-> num_samples,
                    sampling_rate |-> sampling_rate,
                    interpolated |-> ir.last.interpolated,
                    raised |-> ir.last.raised],
                   IF ir.last.raised # "none"
                   THEN [raised |-> ir.last.raised]
                   ELSE [output |->
                           [r \in 0..(ch.num_rx - 1) |->
                               [m \in 0..(num_samples + ir.last.shape[4] - 2) |->
                                   OutputSample(ch, ir.last, r, m)]]])]

PropagateResult(ch, num_samples, sampling_rate) ==
    CHOOSE r \in {Convolved(ch, num_samples, sampling_rate, ir) :
                     ir \in {ImpulseResponseResult(ch, num_samples, sampling_rate)}} : TRUE

---------------------------------------------------------------------------
(* Synthesis on a constructed channel *)

SamplingRates == {1, 2}

AntennaCounts == {1, 2}

\* the paths, (delay, power, Rice factor), the channels are built from
IRPaths == {<<0, 1, PosInf>>, <<3, 4, PosInf>>, <<5, 1, Finite(1)>>}

IRArgs ==
    {Join([delays |-> [i \in 1..Len(paths) |-> paths[i][1]],
           power_profile |-> [i \in 1..Len(paths) |-> paths[i][2]],
           rice_factors |-> [i \in 1..Len(paths) |-> paths[i][3]]], b) :
        paths \in SeqsUpTo(IRPaths, MaxPaths) \ {<<>>},
        b \in [num_sinusoids : {Some(0), Some(2)},
               los_angle : {None},
               doppler_frequency : {None},
               los_doppler_frequency : {None},
               interpolate_signals : {None, Some(TRUE)},
               impulse_response_interpolation : BOOLEAN,
               gain : {2},
               num_tx : AntennaCounts,
               num_rx : AntennaCounts,
               seed : {0}]}

ImpulseResponse ==
    /\ channel.constructed
    /\ \E num_samples \in 1..MaxSamples, sampling_rate \in SamplingRates :
        \E r \in {ImpulseResponseResult(channel, num_samples, sampling_rate)} :
            /\ channel' = [channel EXCEPT !.rng = r.rng]
            /\ last' = r.last

Propagate ==
    /\ channel.constructed
    /\ \E num_samples \in 1..MaxSamples, sampling_rate \in SamplingRates :
        \E r \in {PropagateResult(channel, num_samples, sampling_rate)} :
            /\ channel' = [channel EXCEPT !.rng = r.rng]
            /\ last' = r.last

ReadMinSamplingRate ==
    /\ channel.constructed
    /\ last' = Join([op |-> "min_sampling_rate"], MinSamplingRate(channel))
    /\ UNCHANGED channel

\* channel.interpolate_signals = flag
SetInterpolateSignals ==
    /\ channel.constructed
    /\ \E flag \in BOOLEAN :
        /\ channel' = [channel EXCEPT !.interpolate_signals = Some(flag)]
        /\ last' = [op |-> "interpolate_signals", arg |-> flag]

InitIR ==
    \E a \in IRArgs : \E sorting \in Argsort(a.delays) :
        /\ ~InitRaises(a.delays, a.power_profile, a.rice_factors)
        /\ channel = NewChannel(a, sorting)
        /\ last = [op |-> "init", args |-> a, raised |-> "none"]

NextIR ==
    \/ ImpulseResponse
    \/ Propagate
    \/ ReadMinSamplingRate
    \/ SetInterpolateSignals

SpecIR == InitIR /\ [][NextIR]_vars

---------------------------------------------------------------------------
(* Constructing channels *)

Init ==
    /\ channel = NoChannel
    /\ last = [op |-> "none"]

Next ==
    \/ Construct
    \/ Discard
    \/ SetNumSinusoids

Spec == Init /\ [][Next]_vars

---------------------------------------------------------------------------
(* MultipathFadingChannel.__tap: the value of one sample                   *)

\* los_gain * exp(1j * (los_doppler * timestamps * cos(los_angle) + los_phase))
\* at time sample t: the gain, the part of the exponent that grows with time
\* (nothing where the Doppler shift or the timestamp is zero), and the phase
\* drawn, in quarter turns
LosComponent(tap, t) ==
    [gain |-> tap.los_gain,
     rotation |-> IF tap.los_doppler = 0 \/ t = 0
                  THEN None
                  ELSE Some([doppler |-> tap.los_doppler, sample |-> t,
                             angle |-> tap.los_angle]),
     phase |-> tap.los_phase]

\* nlos_component at time sample t: the gain nlos_gain * num_sinusoids ** -.5
\* and the sinusoids summed
NlosComponent(tap, t) ==
    [gain |-> tap.nlos_gain,
     num_sinusoids |-> tap.num_sinusoids,
     sinusoids |-> [s \in 1..tap.num_sinusoids |->
                      [rotation |-> IF tap.nlos_doppler = 0 \/ t = 0
                                    THEN None
                                    ELSE Some([doppler |-> tap.nlos_doppler,
                                               sample |-> t,
                                               angle |-> tap.nlos_angles[s]]),
                       phase |-> tap.nlos_phases[s]]]]

\* the sample a deposited signal weight stands for
TapSample(ch, weight) ==
    [amplitude |-> weight.amplitude,
     los |-> LosComponent(Tap(ch, weight.rng, weight.los_gain, weight.nlos_gain),
                          weight.sample),
     nlos |-> NlosComponent(Tap(ch, weight.rng, weight.los_gain, weight.nlos_gain),
                            weight.sample)]

---------------------------------------------------------------------------
(* Two channel instances side by side, each with a random stream of its    *)
(* own.  Under SpecLinks channel holds the two instances and last holds,   *)
(* for each of them, the calls made on it so far.                          *)

MaxCalls == 2

\* the path sets, (delay, power, Rice factor), of the first instance
LinkPathSets ==
    {<< <<0, 1, PosInf>> >>,
     << <<1, 4, Finite(1)>> >>,
     << <<0, 1, PosInf>>, <<3, 4, Finite(1)>> >>}

LinkGains == {1, 2}

\* offsets, in ticks, the delays of the second instance are larger by
DelayOffsets == {2, 4}

LinkSeeds == {0, 1}

LinkArgs ==
    {Join([delays |-> [i \in 1..Len(paths) |-> paths[i][1]],
           power_profile |-> [i \in 1..Len(paths) |-> paths[i][2]],
           rice_factors |-> [i \in 1..Len(paths) |-> paths[i][3]]], b) :
        paths \in LinkPathSets,
        b \in [num_sinusoids : {Some(2)},
               los_angle : {None},
               doppler_frequency : {None},
               los_doppler_frequency : {None},
               interpolate_signals : {None},
               impulse_response_interpolation : BOOLEAN,
               gain : {1},
               num_tx : {1},
               num_rx : {1},
               seed : {0}]}

\* the constructor arguments of the second instance: those of the first, or
\* those of the first but for the gain, for the delays, for the seed of the
\* stream, for a number of sinusoids the synthesis fails on, for a fixed
\* line-of-sight angle, or for two antennas on either side
Siblings(a) ==
    {a}
    \cup {[a EXCEPT !.gain = g] : g \in LinkGains}
    \cup {[a EXCEPT !.delays = [i \in 1..Len(a.delays) |-> a.delays[i] + off]] :
             off \in DelayOffsets}
    \cup {[a EXCEPT !.seed = s] : s \in LinkSeeds}
    \cup {[a EXCEPT !.num_sinusoids = Some(-1)]}
    \cup {[a EXCEPT !.los_angle = Some(1)]}
    \cup {[a EXCEPT !.num_tx = 2, !.num_rx = 2]}

\* the instance the call draws from the stream of its sibling
SynthesisOnSiblingStream(chs, i, num_samples, sampling_rate) ==
    ImpulseResponseResult([chs[i] EXCEPT !.rng = chs[3 - i].rng],
                          num_samples, sampling_rate)

\* instance i's impulse_response(num_samples, sampling_rate)
SynthesisOn(chs, i, num_samples, sampling_rate) ==
    ImpulseResponseResult(chs[i], num_samples, sampling_rate)

\* instance i's propagate of num_samples samples
PropagationOn(chs, i, num_samples, sampling_rate) ==
    PropagateResult(chs[i], num_samples, sampling_rate)

\* the call advancing the streams of both instances
CalledOnSharedStream(chs, i, r) ==
    [j \in DOMAIN chs |-> [chs[j] EXCEPT !.rng = r.rng]]

\* the call leaving the gain it scaled the tensor by multiplied into the instance
CalledScalingInPlace(chs, i, r) ==
    [chs EXCEPT ![i].rng = r.rng, ![i].gain = chs[i].gain * chs[i].gain]

\* the instances after a call on instance i with outcome r: the call has
\* drawn from self._rng and assigned no attribute
Called(chs, i, r) == [chs EXCEPT ![i].rng = r.rng]

\* what is kept of a call: the stream before and after it, and its outcome
CallRecord(ch, r) == [before |-> ch.rng, after |-> r.rng, result |-> r.last]

NumCalls == Len(last[1]) + Len(last[2])

CallImpulseResponse ==
    /\ NumCalls < MaxCalls
    /\ \E i \in 1..2, sampling_rate \in SamplingRates :
        \E r \in {SynthesisOn(channel, i, MaxSamples, sampling_rate)} :
            /\ channel' = Called(channel, i, r)
            /\ last' = [last EXCEPT ![i] = Append(@, CallRecord(channel[i], r))]

CallPropagate ==
    /\ NumCalls < MaxCalls
    /\ \E i \in 1..2, sampling_rate \in SamplingRates :
        \E r \in {PropagationOn(channel, i, MaxSamples, sampling_rate)} :
            /\ channel' = Called(channel, i, r)
            /\ last' = [last EXCEPT ![i] = Append(@, CallRecord(channel[i], r))]

InitLinks ==
    \E a \in LinkArgs : \E b \in Siblings(a) :
        \E sa \in Argsort(a.delays), sb \in Argsort(b.delays) :
            /\ channel = <<NewChannel(a, sa), NewChannel(b, sb)>>
            /\ last = <<<<>>, <<>>>>

NextLinks ==
    \/ CallImpulseResponse
    \/ CallPropagate

SpecLinks == InitLinks /\ [][NextLinks]_vars

---------------------------------------------------------------------------
(* Attributes and serialisation of one channel instance.  Under SpecConfig *)
(* last also keeps, as assigned, the value most recently assigned to       *)
(* los_doppler_frequency, by the constructor or the setter.                *)

DopplerValues == {0, 1, 2}

ConfigArgs ==
    {Join([delays |-> [i \in 1..Len(paths) |-> paths[i][1]],
           power_profile |-> [i \in 1..Len(paths) |-> paths[i][2]],
           rice_factors |-> [i \in 1..Len(paths) |-> paths[i][3]]], b) :
        paths \in LinkPathSets,
        b \in [num_sinusoids : {None},
               los_angle : {None},
               doppler_frequency : {None, Some(1)},
               los_doppler_frequency : {None, Some(2)},
               interpolate_signals : {None},
               impulse_response_interpolation : {TRUE},
               gain : {1},
               num_tx : {1},
               num_rx : {1},
               seed : {0}]}

\* doppler_frequency.setter
SetDopplerFrequency ==
    /\ channel.constructed
    /\ \E frequency \in DopplerValues :
        /\ channel' = [channel EXCEPT !.doppler_frequency = frequency]
        /\ last' = [op |-> "doppler_frequency", arg |-> frequency,
                    assigned |-> last.assigned]

\* los_doppler_frequency.setter
SetLosDopplerFrequency ==
    /\ channel.constructed
    /\ \E frequency \in {None} \cup {Some(f) : f \in DopplerValues} :
        /\ channel' = [channel EXCEPT !.los_doppler_frequency = frequency]
        /\ last' = [op |-> "los_doppler_frequency", arg |-> frequency,
                    assigned |-> frequency,
                    doppler_before |-> channel.doppler_frequency]

\* reading los_doppler_frequency
ReadLosDopplerFrequency ==
    /\ channel.constructed
    /\ last' = [op |-> "read_los_doppler_frequency",
                value |-> LosDopplerFrequency(channel),
                assigned |-> last.assigned]
    /\ UNCHANGED channel

\* 10 ** (power / 10), kept as the exponent in tenths
FromDecibel(power) == [ten_to_tenths |-> power]

\* The mapping to_yaml hands to the representer.  active and the two
\* synchronisation offsets are attributes of the base class and stand for
\* themselves.
ToYaml(node) ==
    [delays |-> node.delays,
     power_profile |-> node.power_profile,
     active |-> "active",
     gain |-> node.gain,
     num_sinusoids |-> node.num_sinusoids,
     los_angle |-> node.los_angle,
     doppler_frequency |-> node.doppler_frequency,
     los_doppler_frequency |-> LosDopplerFrequency(node),
     interpolate_signals |-> node.interpolate_signals,
     sync_offset_low |-> "sync_offset_low",
     sync_offset_high |-> "sync_offset_high"]

\* the arguments of __init__ that have no default
RequiredArguments == {"delays", "power_profile", "rice_factors"}

\* from_yaml: the power profile is taken for decibels and converted, then
\* cls(**state) is called; the call raises TypeError when the mapping names
\* no value for an argument without default
FromYaml(state) ==
    LET converted ==
            IF "power_profile" \in DOMAIN state
            THEN [state EXCEPT !.power_profile =
                                  [i \in 1..Len(@) |-> FromDecibel(@[i])]]
            ELSE state
    IN  [raised |-> IF RequiredArguments \subseteq DOMAIN converted
                    THEN "none" ELSE "TypeError",
         state |-> converted]

\* to_yaml of the instance, then from_yaml of what was written
RoundTrip ==
    /\ channel.constructed
    /\ last' = [op |-> "from_yaml",
                yaml |-> ToYaml(channel),
                raised |-> FromYaml(ToYaml(channel)).raised,
                called_with |-> FromYaml(ToYaml(channel)).state,
                assigned |-> last.assigned]
    /\ UNCHANGED channel

InitConfig ==
    \E a \in ConfigArgs : \E sorting \in Argsort(a.delays) :
        /\ channel = NewChannel(a, sorting)
        /\ last = [op |-> "init", assigned |-> a.los_doppler_frequency]

NextConfig ==
    \/ SetDopplerFrequency
    \/ SetLosDopplerFrequency
    \/ ReadLosDopplerFrequency
    \/ RoundTrip

SpecConfig == InitConfig /\ [][NextConfig]_vars

---------------------------------------------------------------------------
(* BlockInterleaver (src/modem/coding/interleaver.py).  Under              *)
(* SpecInterleaver channel holds the interleaver and last the outcome of   *)
(* the last call on it.  A bit is any value; blocks are sequences.         *)

\* the (M, N) shapes of the interleaving matrix
InterleaverShapes == {<<1, 2>>, <<2, 2>>, <<2, 3>>, <<2, 6>>}

BitsInFrame == {6, 7}

MaxBlocks == 2

\* params: an M x N block interleaver maps k = M * N bits to n = M * N bits
InterleaverParams(M, N) ==
    [M |-> M, N |-> N, data_bits_k |-> M * N, encoded_bits_n |-> M * N]

\* code_blocks = int(np.floor(self.bits_in_frame / self.encoded_bits_n))
CodeBlocks(self) == self.bits_in_frame \div self.params.encoded_bits_n

\* np.arange(first, first + size)
Arange(first, size) == [i \in 1..size |-> first + i - 1]

\* the block lengths the interleaver is called with, for k data bits
BlockLengths(k) == {0, k, 2 * k, k + 1}

\* the lists of data blocks of these lengths; block b holds the numbers from
\* 100 * (b - 1) on, so that no two bits of a list are the same value
DataBlocks(lengths) ==
    [b \in 1..Len(lengths) |-> Arange(100 * (b - 1), lengths[b])]

\* block[first:], counted from 0
From(block, first) == SubSeq(block, first + 1, Len(block))

\* block[:stop]
UpTo(block, stop) == SubSeq(block, 1, IF stop < Len(block) THEN stop ELSE Len(block))

\* np.ravel(np.reshape(block, (rows, cols)).T): the block written row by row
\* into rows x cols and read column by column
ReshapeTransposeRavel(block, rows, cols) ==
    [j \in 1..(rows * cols) |->
        block[((j - 1) % rows) * cols + ((j - 1) \div rows) + 1]]

\* deinterleaving that reshapes to (M, N) as the interleaving does
DecodeBlockSameShape(self, block) ==
    ReshapeTransposeRavel(block, self.params.M, self.params.N)

\* np.ravel(np.reshape(block, (self.params.N, self.params.M)).T)
DecodeBlock(self, block) ==
    ReshapeTransposeRavel(block, self.params.N, self.params.M)

\* np.ravel(np.reshape(block[:k], (self.params.M, self.params.N)).T)
EncodeBlock(self, block) ==
    ReshapeTransposeRavel(UpTo(block, self.params.data_bits_k),
                          self.params.M, self.params.N)

\* np.reshape raises ValueError on a piece that does not hold M * N bits
EncodeRaises(self, data_bits) ==
    \E b \in 1..Len(data_bits) : Len(data_bits[b]) % self.params.data_bits_k # 0

\* the while loop over one block: a code block for every k bits
RECURSIVE EncodeWhile(_, _)
EncodeWhile(self, block) ==
    IF Len(block) = 0 THEN <<>>
    ELSE <<EncodeBlock(self, block)>>
            \o EncodeWhile(self, From(block, self.params.data_bits_k))

\* the for loop over the blocks
RECURSIVE EncodeFor(_, _, _)
EncodeFor(self, data_bits, b) ==
    IF b > Len(data_bits) THEN <<>>
    ELSE EncodeWhile(self, data_bits[b]) \o EncodeFor(self, data_bits, b + 1)

\* encode: the code blocks, then a block of zeros that fills the frame
InterleaverEncoded(self, data_bits) ==
    Append(EncodeFor(self, data_bits, 1),
           [i \in 1..(self.bits_in_frame
                        - CodeBlocks(self) * self.params.encoded_bits_n) |-> 0])

\* decode: the last block is dropped when it is shorter than n bits, the
\* others are deinterleaved
InterleaverDecoded(self, encoded_bits) ==
    LET kept == IF Len(encoded_bits[Len(encoded_bits)]) < self.params.encoded_bits_n
                THEN SubSeq(encoded_bits, 1, Len(encoded_bits) - 1)
                ELSE encoded_bits
    IN  [b \in 1..Len(kept) |-> DecodeBlock(self, kept[b])]

InterleaverEncode ==
    /\ last.op \in {"init", "decode"}
    /\ \E lengths \in SeqsUpTo(BlockLengths(channel.params.data_bits_k), MaxBlocks) :
        /\ last' = IF EncodeRaises(channel, DataBlocks(lengths))
                   THEN [op |-> "encode", data_bits |-> DataBlocks(lengths),
                         raised |-> "ValueError"]
                   ELSE [op |-> "encode", data_bits |-> DataBlocks(lengths),
                         raised |-> "none",
                         encoded_bits |-> InterleaverEncoded(channel, DataBlocks(lengths))]
        /\ UNCHANGED channel

InterleaverDecode ==
    /\ last.op = "encode"
    /\ last' = IF last.raised # "none"
               THEN [op |-> "decode", skipped |-> TRUE]
               ELSE [op |-> "decode", skipped |-> FALSE,
                     data_bits |-> last.data_bits,
                     encoded_bits |-> last.encoded_bits,
                     decoded_bits |-> InterleaverDecoded(channel, last.encoded_bits)]
    /\ UNCHANGED channel

InitInterleaver ==
    /\ \E shape \in InterleaverShapes, bits_in_frame \in BitsInFrame :
          channel = [params |-> InterleaverParams(shape[1], shape[2]),
                     bits_in_frame |-> bits_in_frame]
    /\ last = [op |-> "init"]

NextInterleaver ==
    \/ InterleaverEncode
    \/ InterleaverDecode

SpecInterleaver == InitInterleaver /\ [][NextInterleaver]_vars

---------------------------------------------------------------------------
(* WaveformGenerator: the modulation order and the synchronisation of a    *)
(* received signal into frames.  Under SpecWaveform channel is the         *)
(* generator, with the samples_in_frame of its concrete subclass, and last *)
(* the outcome of the last operation on it.  A signal is the sequence of   *)
(* its sample positions 0, 1, ...; a channel state is its number of        *)
(* receive streams, the time samples it covers and its number of delay     *)
(* taps.                                                                   *)

ModulationOrders == {-2, 0, 1, 2, 3, 4, 6, 8}

SamplesInFrame == {1, 2, 3}

SignalLengths == 0..5

StateSamples == 1..4

DelayTaps == 1..2

ReceiveStreams == {1, 2}

DefaultModulationOrder == 256

\* order & (order - 1), on naturals
RECURSIVE BitAnd(_, _)
BitAnd(x, y) ==
    IF x = 0 \/ y = 0
    THEN 0
    ELSE (x % 2) * (y % 2) + 2 * BitAnd(x \div 2, y \div 2)

\* the setter of modulation_order refuses what is not a positive power of two
ModulationOrderRaises(order) ==
    IF order <= 0 THEN TRUE ELSE BitAnd(order, order - 1) # 0

\* __init__: the default order, replaced through the setter when one is given
NewWaveformGenerator(modulation_order, samples_in_frame) ==
    [modulation_order |-> IF modulation_order = None
                          THEN DefaultModulationOrder
                          ELSE modulation_order[1],
     samples_in_frame |-> samples_in_frame]

\* bits_per_symbol: 2 ** modulation_order, kept as the power it is
BitsPerSymbol(self) == [two_to |-> self.modulation_order]

\* a channel state over the time samples 0 .. num_samples - 1
ChannelStateInformation(num_receive_streams, num_samples, num_delay_taps) ==
    [num_receive_streams |-> num_receive_streams,
     samples |-> Arange(0, num_samples),
     num_delay_taps |-> num_delay_taps]

NumSamples(channel_state) == Len(channel_state.samples)

\* array[start:stop], cut at the end of the array
Slice(array, start, stop) ==
    SubSeq(array, Min(<<start, Len(array)>>) + 1, Min(<<stop, Len(array)>>))

\* channel_state[:, :, start:stop, :]
StateSlice(channel_state, start, stop) ==
    [channel_state EXCEPT !.samples = Slice(@, start, stop)]

SynchronizeRaises(self, signal, channel_state) ==
    IF Len(signal) # NumSamples(channel_state) + channel_state.num_delay_taps - 1
    THEN "ValueError"
    ELSE IF channel_state.num_receive_streams # 1
         THEN "ValueError"
         ELSE "none"

\* the frames synchronize returns: pairs of frame samples and frame state
SynchronizedFrames(self, signal, channel_state) ==
    LET samples_per_frame == self.samples_in_frame
        num_frames == Len(signal) \div samples_per_frame
    IN  [f \in 1..num_frames |->
            <<Slice(signal, (f - 1) * samples_per_frame, f * samples_per_frame),
              StateSlice(channel_state, (f - 1) * samples_per_frame,
                         f * samples_per_frame)>>]

SetModulationOrder ==
    \E order \in ModulationOrders :
        IF ModulationOrderRaises(order)
        THEN /\ last' = [op |-> "set_modulation_order", order |-> order,
                         raised |-> "ValueError"]
             /\ UNCHANGED channel
        ELSE /\ channel' = [channel EXCEPT !.modulation_order = order]
             /\ last' = [op |-> "set_modulation_order", order |-> order,
                         raised |-> "none"]

ReadBitsPerSymbol ==
    /\ last' = [op |-> "bits_per_symbol", raised |-> "none",
                bits_per_symbol |-> BitsPerSymbol(channel)]
    /\ UNCHANGED channel

Synchronize ==
    \E n \in SignalLengths, streams \in ReceiveStreams,
       num_samples \in StateSamples, taps \in DelayTaps :
        LET signal == Arange(0, n)
            channel_state == ChannelStateInformation(streams, num_samples, taps)
        IN  /\ last' = IF SynchronizeRaises(channel, signal, channel_state) # "none"
                       THEN [op |-> "synchronize", signal |-> signal,
                             channel_state |-> channel_state,
                             raised |-> "ValueError"]
                       ELSE [op |-> "synchronize", signal |-> signal,
                             channel_state |-> channel_state,
                             raised |-> "none",
                             frames |-> SynchronizedFrames(channel, signal, channel_state)]
            /\ UNCHANGED channel

InitWaveform ==
    /\ \E modulation_order \in {None} \cup {Some(o) : o \in ModulationOrders},
          samples_in_frame \in SamplesInFrame :
            /\ modulation_order # None => ~ModulationOrderRaises(modulation_order[1])
            /\ channel = NewWaveformGenerator(modulation_order, samples_in_frame)
    /\ last = [op |-> "init", raised |-> "none"]

NextWaveform ==
    \/ SetModulationOrder
    \/ ReadBitsPerSymbol
    \/ Synchronize

SpecWaveform == InitWaveform /\ [][NextWaveform]_vars

---------------------------------------------------------------------------
(* RepetitionEncoder.  Under SpecRepetition channel is the encoder and     *)
(* last the outcome of the last operation on it.                           *)

BlockSizes == 0..4

\* the bit blocks of num_bits bits
BitBlocks(num_bits) == [1..num_bits -> {0, 1}]

\* the three setters refuse a value smaller than one
SizeRaises(num) == num < 1

\* __init__: the three setters in turn, then the check of the sizes
RepetitionInitRaises(bit_block_size, repetitions, code_block_size) ==
    IF SizeRaises(bit_block_size) \/ SizeRaises(repetitions)
          \/ SizeRaises(code_block_size)
    THEN TRUE
    ELSE bit_block_size * repetitions > code_block_size

RepetitionEncoder(bit_block_size, repetitions, code_block_size) ==
    [bit_block_size |-> bit_block_size,
     repetitions |-> repetitions,
     code_block_size |-> code_block_size]

\* np.repeat(bits, repetitions): every bit repeated in place
Repeat(bits, repetitions) ==
    [i \in 1..(Len(bits) * repetitions) |-> bits[((i - 1) \div repetitions) + 1]]

\* encode fails when the repeated bits do not fit code[:num_code_bits], and
\* when code[-num_padding_bits:], the whole block for num_padding_bits = 0,
\* is not of num_padding_bits bits
RepetitionEncodeRaises(self, bits) ==
    LET num_code_bits == self.bit_block_size * self.repetitions
        num_padding_bits == self.code_block_size - num_code_bits
    IN  IF Len(Repeat(bits, self.repetitions))
              # Len(Slice(Arange(0, self.code_block_size), 0, num_code_bits))
        THEN "ValueError"
        ELSE IF num_padding_bits
                  # (IF num_padding_bits = 0
                     THEN self.code_block_size
                     ELSE Min(<<num_padding_bits, self.code_block_size>>))
             THEN "ValueError"
             ELSE "none"

\* the block encode returns: the repeated bits, then the zeros
RepetitionEncoded(self, bits) ==
    LET num_code_bits == self.bit_block_size * self.repetitions
        num_padding_bits == self.code_block_size - num_code_bits
    IN  Repeat(bits, self.repetitions) \o [i \in 1..num_padding_bits |-> 0]

\* encoded_bits[(bit_block_size * repetitions):]
DecodeInput(self, encoded_bits) ==
    Slice(encoded_bits, self.bit_block_size * self.repetitions, Len(encoded_bits))

\* reshape((repetitions, bit_block_size)) fails on any other number of bits
RepetitionDecodeRaises(self, encoded_bits) ==
    IF Len(DecodeInput(self, encoded_bits)) # self.repetitions * self.bit_block_size
    THEN "ValueError"
    ELSE "none"

RECURSIVE SumRows(_, _, _, _)
SumRows(code, row, cols, col) ==
    IF row = 0
    THEN 0
    ELSE code[(row - 1) * cols + col] + SumRows(code, row - 1, cols, col)

\* (np.sum(code, axis=0) / repetitions) >= 0.5, as integers
RepetitionDecoded(self, encoded_bits) ==
    LET code == DecodeInput(self, encoded_bits)
    IN  [col \in 1..self.bit_block_size |->
            IF 2 * SumRows(code, self.repetitions, self.bit_block_size, col)
                  >= self.repetitions
            THEN 1 ELSE 0]

SetBitBlockSize ==
    \E num \in BlockSizes :
        IF SizeRaises(num)
        THEN /\ last' = [op |-> "bit_block_size", num |-> num, raised |-> "ValueError"]
             /\ UNCHANGED channel
        ELSE /\ channel' = [channel EXCEPT !.bit_block_size = num]
             /\ last' = [op |-> "bit_block_size", num |-> num, raised |-> "none"]

SetRepetitions ==
    \E num \in BlockSizes :
        IF SizeRaises(num)
        THEN /\ last' = [op |-> "repetitions", num |-> num, raised |-> "ValueError"]
             /\ UNCHANGED channel
        ELSE /\ channel' = [channel EXCEPT !.repetitions = num]
             /\ last' = [op |-> "repetitions", num |-> num, raised |-> "none"]

SetCodeBlockSize ==
    \E num \in BlockSizes :
        IF SizeRaises(num)
        THEN /\ last' = [op |-> "code_block_size", num |-> num, raised |-> "ValueError"]
             /\ UNCHANGED channel
        ELSE /\ channel' = [channel EXCEPT !.code_block_size = num]
             /\ last' = [op |-> "code_block_size", num |-> num, raised |-> "none"]

RepetitionEncode ==
    \E bits \in BitBlocks(channel.bit_block_size) :
        /\ last' = IF RepetitionEncodeRaises(channel, bits) # "none"
                   THEN [op |-> "encode", bits |-> bits, raised |-> "ValueError"]
                   ELSE [op |-> "encode", bits |-> bits, raised |-> "none",
                         code |-> RepetitionEncoded(channel, bits)]
        /\ UNCHANGED channel

\* decode, applied to the block encode has just returned
RepetitionDecode ==
    /\ last.op = "encode"
    /\ last.raised = "none"
    /\ last' = IF RepetitionDecodeRaises(channel, last.code) # "none"
               THEN [op |-> "decode", bits |-> last.bits, code |-> last.code,
                     raised |-> "ValueError"]
               ELSE [op |-> "decode", bits |-> last.bits, code |-> last.code,
                     raised |-> "none",
                     decoded |-> RepetitionDecoded(channel, last.code)]
    /\ UNCHANGED channel

InitRepetition ==
    /\ \E bit_block_size, repetitions, code_block_size \in BlockSizes :
        /\ ~RepetitionInitRaises(bit_block_size, repetitions, code_block_size)
        /\ channel = RepetitionEncoder(bit_block_size, repetitions, code_block_size)
    /\ last = [op |-> "init", raised |-> "none"]

NextRepetition ==
    \/ SetBitBlockSize
    \/ SetRepetitions
    \/ SetCodeBlockSize
    \/ RepetitionEncode
    \/ RepetitionDecode

SpecRepetition == InitRepetition /\ [][NextRepetition]_vars

---------------------------------------------------------------------------
(* Executable: the plotting style.  Under SpecExecutable channel holds the *)
(* class attribute Executable.__style, the instance attribute of each of   *)
(* two executables (none until the setter has stored one) and the style    *)
(* matplotlib currently applies; last is the outcome of the last           *)
(* operation.                                                              *)

HermesStyles == {"dark", "light"}

MatplotlibStyles == {"classic", "ggplot"}

StyleValues == HermesStyles \cup MatplotlibStyles \cup {"131241251"}

Executables == 1..2

\* the style setter refuses what neither Hermes nor matplotlib offers
StyleRaises(value) ==
    IF value \in HermesStyles
    THEN FALSE
    ELSE value \notin MatplotlibStyles

\* self.__style: the attribute of the instance, of the class when the
\* instance has none
Style(state, self) ==
    IF state.instances[self].style = None
    THEN state.class_style
    ELSE state.instances[self].style[1]

\* style_context, a static method: plt.style.use of Executable.__style
StyleContext(state) == [state EXCEPT !.plt = state.class_style]

SetStyle ==
    \E self \in Executables, value \in StyleValues :
        IF StyleRaises(value)
        THEN /\ last' = [op |-> "style", self |-> self, value |-> value,
                         raised |-> "ValueError",
                         before |-> Style(channel, self),
                         after |-> Style(channel, self)]
             /\ UNCHANGED channel
        ELSE /\ channel' = [channel EXCEPT !.instances[self].style = Some(value)]
             /\ last' = [op |-> "style", self |-> self, value |-> value,
                         raised |-> "none",
                         before |-> Style(channel, self),
                         after |-> Style(channel', self)]

\* execute: run() is entered with the style style_context has applied
Execute ==
    \E self \in Executables :
        /\ channel' = StyleContext(channel)
        /\ last' = [op |-> "execute", self |-> self, raised |-> "none",
                    run_style |-> channel'.plt]

InitExecutable ==
    /\ channel = [class_style |-> "dark",
                  instances |-> [self \in Executables |-> [style |-> None]],
                  plt |-> "default"]
    /\ last = [op |-> "init", raised |-> "none"]

NextExecutable ==
    \/ SetStyle
    \/ Execute

SpecExecutable == InitExecutable /\ [][NextExecutable]_vars

---------------------------------------------------------------------------
(* Construction: C1 - C5, checked under Spec *)

AnyNegative(a) ==
    \/ \E i \in 1..Len(a.delays) : a.delays[i] < 0
    \/ \E i \in 1..Len(a.power_profile) : a.power_profile[i] < 0
    \/ \E i \in 1..Len(a.rice_factors) :
          (~a.rice_factors[i].inf) /\ a.rice_factors[i].val < 0

AnyZero(a) ==
    \/ \E i \in 1..Len(a.delays) : a.delays[i] = 0
    \/ \E i \in 1..Len(a.power_profile) : a.power_profile[i] = 0
    \/ \E i \in 1..Len(a.rice_factors) :
          (~a.rice_factors[i].inf) /\ a.rice_factors[i].val = 0

SameLength(a) ==
    /\ Len(a.delays) = Len(a.power_profile)
    /\ Len(a.delays) = Len(a.rice_factors)

SomeEmpty(a) ==
    Len(a.delays) = 0 \/ Len(a.power_profile) = 0 \/ Len(a.rice_factors) = 0

\* C1: a constructor call whose delays, power_profile and rice_factors differ
\* in length, are empty, or hold a negative delay, power or Rice factor raises
\* ValueError, and no channel instance results from it.
C1_InvalidPathSetRaises ==
    (last.op = "init" /\ (~SameLength(last.args) \/ SomeEmpty(last.args)
                             \/ AnyNegative(last.args)))
        => (last.raised = "ValueError" /\ ~channel.constructed)

\* each kind of invalid argument has been refused: a negative power among
\* vectors of one length
C1_Witness ==
    /\ last.op = "init"
    /\ SameLength(last.args) /\ ~SomeEmpty(last.args)
    /\ \E i \in 1..Len(last.args.power_profile) : last.args.power_profile[i] < 0
    /\ \A i \in 1..Len(last.args.delays) : last.args.delays[i] >= 0
    /\ last.raised = "ValueError"
    /\ ~channel.constructed

\* C2 as stated: a constructor call with a delay, a power or a Rice factor
\* that is zero or negative raises ValueError.
C2_ZeroOrNegativeRaises ==
    (last.op = "init" /\ (AnyZero(last.args) \/ AnyNegative(last.args)))
        => last.raised = "ValueError"

\* C2 amended: among calls with vectors of one non-zero length, ValueError is
\* raised exactly when some delay, power or Rice factor is negative; a value
\* of zero is accepted.
C2_OnlyNegativeRaises ==
    (last.op = "init" /\ SameLength(last.args) /\ ~SomeEmpty(last.args))
        => (last.raised = "ValueError" <=> AnyNegative(last.args))

\* a channel was constructed from a zero delay, a zero power and a zero Rice factor
C2_Witness ==
    /\ last.op = "init"
    /\ last.raised = "none"
    /\ channel.constructed
    /\ \E i \in 1..Len(last.args.delays) : last.args.delays[i] = 0
    /\ \E i \in 1..Len(last.args.power_profile) : last.args.power_profile[i] = 0
    /\ \E i \in 1..Len(last.args.rice_factors) : last.args.rice_factors[i] = Finite(0)

IsPermutation(p, n) ==
    /\ DOMAIN p = 1..n
    /\ \A i \in 1..n : p[i] \in 1..n
    /\ \A i, j \in 1..n : i # j => p[i] # p[j]

\* C3: after a successful construction the stored delays ascend, the three
\* stored vectors are the arguments under one permutation, the gains at index
\* i come from the Rice factor stored at i, every vector has the non-zero
\* length num_resolvable_paths, and max_delay is the last stored delay.
C3_SortedTriplesKept ==
    (last.op = "init" /\ last.raised = "none") =>
        LET n == Len(last.args.delays) IN
        /\ n > 0
        /\ channel.num_resolvable_paths = n
        /\ Len(channel.delays) = n
        /\ Len(channel.power_profile) = n
        /\ Len(channel.rice_factors) = n
        /\ Len(channel.los_gains) = n
        /\ Len(channel.non_los_gains) = n
        /\ \A i \in 1..(n - 1) : channel.delays[i] <= channel.delays[i + 1]
        /\ \E p \in [1..n -> 1..n] :
              /\ IsPermutation(p, n)
              /\ \A i \in 1..n :
                    /\ channel.delays[i] = last.args.delays[p[i]]
                    /\ channel.power_profile[i] = last.args.power_profile[p[i]]
                    /\ channel.rice_factors[i] = last.args.rice_factors[p[i]]
        /\ \A i \in 1..n :
              /\ channel.rice_factors[i].inf
                    <=> channel.non_los_gains[i].sqnum = 0
              /\ (~channel.rice_factors[i].inf) =>
                    channel.los_gains[i].sqnum = channel.rice_factors[i].val
        /\ channel.max_delay = channel.delays[n]

\* a channel was constructed from delays given in descending order, with
\* powers and Rice factors that tell the two paths apart
C3_Witness ==
    /\ last.op = "init"
    /\ last.raised = "none"
    /\ Len(last.args.delays) = 2
    /\ last.args.delays[1] > last.args.delays[2]
    /\ last.args.power_profile[1] # last.args.power_profile[2]
    /\ last.args.rice_factors[1] # last.args.rice_factors[2]
    /\ channel.delays[1] = last.args.delays[2]

\* C4: for every path of a constructed channel, los_gain^2 = K / (1 + K) and
\* nlos_gain^2 = 1 / (1 + K) for a finite Rice factor K >= 0, los_gain = 1 and
\* nlos_gain = 0 for K = +inf, and los_gain^2 + nlos_gain^2 = 1.
C4_GainsFromRiceFactor ==
    channel.constructed =>
        \A i \in 1..Len(channel.rice_factors) :
            LET k == channel.rice_factors[i]
                los == channel.los_gains[i]
                nlos == channel.non_los_gains[i]
            IN  /\ los.sqden > 0 /\ nlos.sqden > 0
                /\ k.inf => (los.sqnum = los.sqden /\ nlos.sqnum = 0)
                /\ (~k.inf) => /\ los.sqnum * (1 + k.val) = k.val * los.sqden
                               /\ nlos.sqnum * (1 + k.val) = nlos.sqden
                /\ los.sqnum * nlos.sqden + nlos.sqnum * los.sqden
                      = los.sqden * nlos.sqden

\* a constructed channel holds a path of Rice factor 0, one of Rice factor 1
\* or one of Rice factor +inf next to another
C4_Witness ==
    /\ channel.constructed
    /\ Len(channel.rice_factors) = 2
    /\ channel.rice_factors[1] = Finite(1)
    /\ channel.rice_factors[2] = PosInf
    /\ channel.los_gains[2] = Sqrt(1, 1)

\* C5 as stated: num_sinusoids is never negative in a constructed channel.
C5_NumSinusoidsNeverNegative ==
    channel.constructed => channel.num_sinusoids >= 0

---------------------------------------------------------------------------
(* Synthesis: C6 - C10, checked under SpecIR *)

\* d is the floor of delay * sampling_rate, delay counted in ticks
IsFloor(d, delay, sampling_rate) ==
    /\ d * TicksPerUnit <= delay * sampling_rate
    /\ delay * sampling_rate < (d + 1) * TicksPerUnit

\* d is delay * sampling_rate rounded to the nearest sample, halves upwards
IsRounded(d, delay, sampling_rate) ==
    /\ 2 * d * TicksPerUnit <= 2 * delay * sampling_rate + TicksPerUnit
    /\ 2 * delay * sampling_rate + TicksPerUnit < 2 * (d + 1) * TicksPerUnit

\* C6 as stated: for any antenna counts, a call of impulse_response that
\* generates its fading sequences deposits exactly one of them for each path
\* and each (receive antenna, transmit antenna) pair, at indices inside the
\* tensor.
C6_OneDepositPerAntennaPair ==
    (last.op = "impulse_response" /\ channel.num_sinusoids > 0) =>
        /\ \A k \in 1..Len(last.writes) :
              /\ last.writes[k].rx_idx < channel.num_rx
              /\ last.writes[k].tx_idx < channel.num_tx
        /\ \A p \in 1..channel.num_resolvable_paths :
              \A rx \in 0..(channel.num_rx - 1) : \A tx \in 0..(channel.num_tx - 1) :
                 Cardinality({k \in 1..Len(last.writes) :
                                last.writes[k] = [path_idx |-> p,
                                                  rx_idx |-> rx,
                                                  tx_idx |-> tx]}) = 1

\* C7: a tensor returned by impulse_response(num_samples, sampling_rate) has
\* the shape [num_samples, num_rx, num_tx, D + 1] with D the floor of the
\* largest delay times the sampling rate; a channel whose only delay is 0 has
\* one delay-tap.
C7_TensorShape ==
    (last.op = "impulse_response" /\ last.raised = "none") =>
        /\ Len(last.shape) = 4
        /\ last.shape[1] = last.num_samples
        /\ last.shape[2] = channel.num_rx
        /\ last.shape[3] = channel.num_tx
        /\ \A p \in 1..Len(channel.delays) :
              channel.delays[p] * last.sampling_rate
                  < last.shape[4] * TicksPerUnit
        /\ \E p \in 1..Len(channel.delays) :
              IsFloor(last.shape[4] - 1, channel.delays[p], last.sampling_rate)
        /\ DOMAIN last.tensor =
              {idx \in (0..last.shape[1]) \X (0..last.shape[2]) \X (0..last.shape[3])
                          \X (0..last.shape[4]) :
                  \A axis \in 1..4 : idx[axis] < last.shape[axis]}
        /\ (\A p \in 1..Len(channel.delays) : channel.delays[p] = 0)
              => last.shape[4] = 1

\* a tensor was returned for a largest delay that is no whole number of
\* samples and spans more than one delay-tap
C7_Witness ==
    /\ last.op = "impulse_response"
    /\ last.raised = "none"
    /\ last.shape[4] = 2
    /\ channel.num_rx = 2
    /\ (channel.max_delay * last.sampling_rate) % TicksPerUnit # 0

\* the paths, in ascending order, whose delay falls into delay-tap d
PathsOfTap(d, sampling_rate) ==
    SelectSeq([p \in 1..channel.num_resolvable_paths |-> p],
              LAMBDA p : IsFloor(d, channel.delays[p], sampling_rate))

\* C8: under the nearest-sample policy every entry of the returned tensor is
\* gain times the sum, over exactly the paths whose floor(delay *
\* sampling_rate) is the entry's delay-tap, of sqrt(power) times a fading
\* sequence of that path at the entry's time sample; an entry whose delay-tap
\* no path falls into is zero.
C8_NearestSampleDeposits ==
    (last.op = "impulse_response" /\ last.raised = "none" /\ ~last.interpolated) =>
        \A idx \in DOMAIN last.tensor :
            LET here == PathsOfTap(idx[4], last.sampling_rate)
                entry == last.tensor[idx]
            IN  /\ entry.gain = channel.gain
                /\ Len(entry.sum) = Len(here)
                /\ \A j \in 1..Len(entry.sum) :
                      /\ entry.sum[j].filter = None
                      /\ entry.sum[j].weight.path_idx = here[j]
                      /\ entry.sum[j].weight.amplitude
                            = Sqrt(channel.power_profile[here[j]], 1)
                      /\ entry.sum[j].weight.los_gain = channel.los_gains[here[j]]
                      /\ entry.sum[j].weight.nlos_gain = channel.non_los_gains[here[j]]
                      /\ entry.sum[j].weight.sample = idx[1]

\* a tensor was returned under the nearest-sample policy in which two paths
\* share a delay-tap and another delay-tap is hit by no path
C8_Witness ==
    /\ last.op = "impulse_response"
    /\ last.raised = "none"
    /\ ~last.interpolated
    /\ \E idx \in DOMAIN last.tensor : Len(last.tensor[idx].sum) = 2
    /\ \E idx \in DOMAIN last.tensor : last.tensor[idx].sum = <<>>

\* the call propagated a signal through a single path of delay d > 0 and
\* infinite Rice factor under the nearest-sample policy
SingleSpecularPath ==
    /\ last.op = "propagate"
    /\ last.raised = "none"
    /\ ~last.interpolated
    /\ channel.num_resolvable_paths = 1
    /\ channel.delays[1] > 0
    /\ channel.rice_factors[1].inf

\* the output of every receive antenna starts with exactly zeros zero samples
LeadingZeros(zeros) ==
    \A r \in DOMAIN last.output : \A m \in DOMAIN last.output[r] :
        (last.output[r][m] = {}) <=> (m < zeros)

C10_PolicyFollowsInterpolateSignals ==
    /\ (last.op = "impulse_response" /\ channel.num_sinusoids > 0) =>
          (last.interpolated <=> channel.interpolate_signals = Some(TRUE))
    /\ (last.op = "min_sampling_rate" /\ channel.interpolate_signals = Some(TRUE)) =>
          (last.raised = "none" /\ last.num = 0)

---------------------------------------------------------------------------
(* Relations between calls: C11 - C14, C19, C20, checked under SpecLinks *)

\* instance i has a single path of delay 0, infinite Rice factor and power 1,
\* and gain 1
IsBaseline(i) ==
    /\ channel[i].num_resolvable_paths = 1
    /\ channel[i].delays[1] = 0
    /\ channel[i].rice_factors[1].inf
    /\ channel[i].power_profile[1] = 1
    /\ channel[i].gain = 1
    /\ channel[i].num_sinusoids > 0

\* the calls of one kind made on instance i that returned
Returns(i, op) ==
    {k \in 1..Len(last[i]) :
        last[i][k].result.op = op /\ last[i][k].result.raised = "none"}

\* a tensor entry of instance i whose value is exactly 1: one deposit, of
\* amplitude 1, line-of-sight gain 1 and no rotation, phase 0, nothing scattered
IsOne(i, entry) ==
    /\ entry.gain = 1
    /\ Len(entry.sum) = 1
    /\ TapSample(channel[i], entry.sum[1].weight).amplitude = Sqrt(1, 1)
    /\ TapSample(channel[i], entry.sum[1].weight).los.gain = Sqrt(1, 1)
    /\ TapSample(channel[i], entry.sum[1].weight).los.rotation = None
    /\ TapSample(channel[i], entry.sum[1].weight).los.phase = 0
    /\ TapSample(channel[i], entry.sum[1].weight).nlos.gain = Sqrt(0, 1)

\* C11 as stated: for a single path of delay 0, infinite Rice factor, power 1
\* and gain 1, impulse_response returns the same tensor whatever the state of
\* the random stream, every entry of it exactly 1, and propagate returns its
\* input: output sample m is input sample m times 1.
C11_BaselineIsIdentity ==
    /\ \A i \in 1..2 : IsBaseline(i) =>
          /\ \A k \in Returns(i, "impulse_response") :
                \A idx \in DOMAIN last[i][k].result.tensor :
                    IsOne(i, last[i][k].result.tensor[idx])
          /\ \A k \in Returns(i, "propagate") :
                \A r \in DOMAIN last[i][k].result.output :
                    \A m \in DOMAIN last[i][k].result.output[r] :
                        /\ Cardinality(last[i][k].result.output[r][m]) = 1
                        /\ \A c \in last[i][k].result.output[r][m] :
                              c.input = m /\ IsOne(i, c.entry)
    /\ \A i, j \in 1..2 : (IsBaseline(i) /\ IsBaseline(j)) =>
          \A k \in Returns(i, "impulse_response") :
              \A l \in Returns(j, "impulse_response") :
                  (last[i][k].result.sampling_rate = last[j][l].result.sampling_rate)
                      => last[i][k].result.tensor = last[j][l].result.tensor

\* instances i and j are configured alike but for the fields named
SameBut(i, j, fields) ==
    \A f \in (DOMAIN channel[i]) \ (fields \cup {"rng"}) :
        channel[i][f] = channel[j][f]

\* call k of instance i and call l of instance j are the same operation with
\* the same arguments, started from the same state of the stream
SameCall(i, k, j, l) ==
    /\ last[i][k].result.op = last[j][l].result.op
    /\ last[i][k].result.num_samples = last[j][l].result.num_samples
    /\ last[i][k].result.sampling_rate = last[j][l].result.sampling_rate
    /\ last[i][k].before = last[j][l].before

\* the entry times g
Times(g, entry) == [entry EXCEPT !.gain = g * @]

\* C12: of two channels that differ in the gain alone, 1 and g, called alike
\* from the same state of the stream, the second returns every entry of the
\* impulse response, and every term of every propagated sample, g times that
\* of the first; both leave the stream in the same state and raise alike.
C12_GainScalesLinearly ==
    \A i, j \in 1..2 :
        (SameBut(i, j, {"gain"}) /\ channel[i].gain = 1) =>
            \A k \in 1..Len(last[i]) : \A l \in 1..Len(last[j]) :
                SameCall(i, k, j, l) =>
                    /\ last[i][k].after = last[j][l].after
                    /\ last[i][k].result.raised = last[j][l].result.raised
                    /\ (k \in Returns(i, "impulse_response")) =>
                          /\ DOMAIN last[j][l].result.tensor
                                = DOMAIN last[i][k].result.tensor
                          /\ \A idx \in DOMAIN last[i][k].result.tensor :
                                last[j][l].result.tensor[idx]
                                    = Times(channel[j].gain,
                                            last[i][k].result.tensor[idx])
                    /\ (k \in Returns(i, "propagate")) =>
                          /\ DOMAIN last[j][l].result.output
                                = DOMAIN last[i][k].result.output
                          /\ \A r \in DOMAIN last[i][k].result.output :
                                /\ DOMAIN last[j][l].result.output[r]
                                      = DOMAIN last[i][k].result.output[r]
                                /\ \A m \in DOMAIN last[i][k].result.output[r] :
                                      last[j][l].result.output[r][m]
                                          = {[c EXCEPT !.entry = Times(channel[j].gain, @)] :
                                                c \in last[i][k].result.output[r][m]}

\* a channel of gain 1 and one of gain 2, alike otherwise, have each returned
\* a tensor with deposits for the same call from the same state of the stream
C12_Witness ==
    /\ SameBut(1, 2, {"gain"})
    /\ channel[1].gain = 1
    /\ channel[2].gain = 2
    /\ Len(last[1]) = 1
    /\ Len(last[2]) = 1
    /\ SameCall(1, 1, 2, 1)
    /\ 1 \in Returns(1, "impulse_response")
    /\ \E idx \in DOMAIN last[2][1].result.tensor :
          /\ last[2][1].result.tensor[idx].sum # <<>>
          /\ last[2][1].result.tensor[idx].gain = 2

\* every delay of instance j is the delay of instance i plus off ticks
ShiftedBy(i, j, off) ==
    /\ Len(channel[j].delays) = Len(channel[i].delays)
    /\ \A p \in 1..Len(channel[i].delays) :
          channel[j].delays[p] = channel[i].delays[p] + off

\* off ticks are taps sampling intervals at this sampling rate
WholeTaps(off, sampling_rate, taps) == off * sampling_rate = taps * TicksPerUnit

\* C13: of two channels under the nearest-sample policy that differ in the
\* delays alone, those of the second larger by k >= 1 sampling intervals, and
\* that are called alike from the same state of the stream, the second returns
\* the impulse response of the first moved by k delay-taps, the first k
\* delay-taps empty, and the propagated output of the first preceded by k
\* zero samples; both leave the stream in the same state.
C13_DelayOffsetShiftsTaps ==
    \A i, j \in 1..2 : \A off \in DelayOffsets :
        (/\ SameBut(i, j, {"delays", "max_delay"})
         /\ ShiftedBy(i, j, off)
         /\ ~channel[i].impulse_response_interpolation) =>
            \A k \in 1..Len(last[i]) : \A l \in 1..Len(last[j]) :
                \A taps \in 1..off :
                    (/\ SameCall(i, k, j, l)
                     /\ WholeTaps(off, last[i][k].result.sampling_rate, taps)) =>
                        /\ last[i][k].after = last[j][l].after
                        /\ last[i][k].result.raised = last[j][l].result.raised
                        /\ (k \in Returns(i, "impulse_response")) =>
                              /\ last[j][l].result.shape
                                    = [last[i][k].result.shape EXCEPT ![4] = @ + taps]
                              /\ \A idx \in DOMAIN last[j][l].result.tensor :
                                    IF idx[4] < taps
                                    THEN last[j][l].result.tensor[idx].sum = <<>>
                                    ELSE last[j][l].result.tensor[idx]
                                            = last[i][k].result.tensor[
                                                 <<idx[1], idx[2], idx[3], idx[4] - taps>>]
                        /\ (k \in Returns(i, "propagate")) =>
                              /\ DOMAIN last[j][l].result.output
                                    = DOMAIN last[i][k].result.output
                              /\ \A r \in DOMAIN last[i][k].result.output :
                                    /\ DOMAIN last[j][l].result.output[r]
                                          = 0..(Cardinality(DOMAIN last[i][k].result.output[r])
                                                   + taps - 1)
                                    /\ \A m \in DOMAIN last[j][l].result.output[r] :
                                          IF m < taps
                                          THEN last[j][l].result.output[r][m] = {}
                                          ELSE last[j][l].result.output[r][m]
                                                  = last[i][k].result.output[r][m - taps]

\* two channels of two paths, the delays of the second larger by one sampling
\* interval, have each returned a tensor for the same call from the same state
\* of the stream
C13_Witness ==
    /\ SameBut(1, 2, {"delays", "max_delay"})
    /\ channel[1].num_resolvable_paths = 2
    /\ ~channel[1].impulse_response_interpolation
    /\ \E off \in DelayOffsets :
          /\ ShiftedBy(1, 2, off)
          /\ Len(last[1]) = 1
          /\ Len(last[2]) = 1
          /\ SameCall(1, 1, 2, 1)
          /\ WholeTaps(off, last[1][1].result.sampling_rate, 1)
    /\ 1 \in Returns(1, "impulse_response")
    /\ 1 \in Returns(2, "impulse_response")
    /\ last[2][1].result.shape[4] = last[1][1].result.shape[4] + 1

Alone(i, record) ==
    IF record.result.op = "impulse_response"
    THEN ImpulseResponseResult([channel[i] EXCEPT !.rng = record.before],
                               record.result.num_samples, record.result.sampling_rate)
    ELSE PropagateResult([channel[i] EXCEPT !.rng = record.before],
                         record.result.num_samples, record.result.sampling_rate)

\* C19: with a stream of its own for each instance, what an instance returns
\* over its calls is what it returns when it runs alone, whatever calls of the
\* other instance come in between: its first call starts from its own seed,
\* each later call from where its previous call left its stream, and every
\* outcome is that of the call made alone; a call that raises on one instance
\* leaves the other as it was.
C19_InstancesAreIndependent ==
    \A i \in 1..2 :
        /\ channel[i].rng = IF last[i] = <<>> THEN channel[i].rng
                            ELSE last[i][Len(last[i])].after
        /\ (last[i] = <<>>) => channel[i].rng \in LinkSeeds
        /\ (last[i] # <<>>) => last[i][1].before \in LinkSeeds
        /\ \A k \in 1..(Len(last[i]) - 1) : last[i][k + 1].before = last[i][k].after
        /\ \A k \in 1..Len(last[i]) :
              /\ Alone(i, last[i][k]).last = last[i][k].result
              /\ Alone(i, last[i][k]).rng = last[i][k].after

\* a call has raised ValueError on one instance, and the other, seeded
\* otherwise alike, has returned a tensor holding fading sequences
C19_Witness ==
    /\ Len(last[1]) = 1
    /\ Len(last[2]) = 1
    /\ last[2][1].result.raised = "ValueError"
    /\ 1 \in Returns(1, "impulse_response")
    /\ last[1][1].after # last[1][1].before
    /\ \E idx \in DOMAIN last[1][1].result.tensor :
          last[1][1].result.tensor[idx].sum # <<>>

\* the attributes of a channel instance other than its random stream
Configuration(ch) == [f \in (DOMAIN ch) \ {"rng"} |-> ch[f]]

\* C20: a call of impulse_response assigns no attribute of the instance it is
\* made on but the state of its random stream, and changes no tensor returned
\* by an earlier call, on that instance or on another.
C20_SynthesisKeepsConfiguration ==
    [][\A i \in 1..2 :
          (/\ Len(last'[i]) = Len(last[i]) + 1
           /\ last'[i][Len(last'[i])].result.op = "impulse_response") =>
              /\ Configuration(channel'[i]) = Configuration(channel[i])
              /\ channel'[i].rng = last'[i][Len(last'[i])].after
              /\ channel'[3 - i] = channel[3 - i]
              /\ last'[3 - i] = last[3 - i]
              /\ \A k \in 1..Len(last[i]) : last'[i][k] = last[i][k]]_vars

\* an instance of gain 2 has returned two tensors from two calls of
\* impulse_response, each of which advanced its stream
C20_Witness ==
    \E i \in 1..2 :
        /\ channel[i].gain = 2
        /\ Len(last[i]) = 2
        /\ Returns(i, "impulse_response") = {1, 2}
        /\ last[i][1].after # last[i][1].before
        /\ last[i][2].after # last[i][2].before
        /\ last[i][2].before = last[i][1].after

---------------------------------------------------------------------------
(* Attributes and serialisation: C15, C17, checked under SpecConfig *)

\* C15: after any sequence of assignments to doppler_frequency and
\* los_doppler_frequency, reading los_doppler_frequency returns the value most
\* recently assigned to it if that was not None, and the global
\* doppler_frequency of the moment otherwise; assigning los_doppler_frequency
\* leaves doppler_frequency as it was.
C15_LosDopplerFollowsGlobal ==
    /\ (last.op = "read_los_doppler_frequency") =>
          last.value = IF last.assigned # None
                       THEN last.assigned[1]
                       ELSE channel.doppler_frequency
    /\ (last.op = "los_doppler_frequency") =>
          channel.doppler_frequency = last.doppler_before

\* los_doppler_frequency was read as 2, the global Doppler frequency assigned
\* after construction, None having been assigned to it
C15_Witness ==
    /\ last.op = "read_los_doppler_frequency"
    /\ last.assigned = None
    /\ last.value = 2
    /\ channel.doppler_frequency = 2

\* the converted value 10 ** (decibels / 10) is the linear power
IsLinearOf(power, converted) ==
    \/ power = 1 /\ converted.ten_to_tenths = 0
    \/ power = 10 /\ converted.ten_to_tenths = 10

\* C17 as stated: from_yaml of what to_yaml wrote constructs a channel with
\* the delays, linear power profile, Rice factors, gain, num_sinusoids,
\* los_angle, Doppler frequencies and interpolation flag of the original:
\* to_yaml names every argument the constructor requires and stores the power
\* profile in decibels, so that from_yaml's conversion restores it.
C17_YamlRoundTrip ==
    (last.op = "from_yaml") =>
        /\ RequiredArguments \subseteq DOMAIN last.yaml
        /\ last.raised = "none"
        /\ last.called_with.delays = channel.delays
        /\ Len(last.called_with.power_profile) = Len(channel.power_profile)
        /\ \A i \in 1..Len(channel.power_profile) :
              IsLinearOf(channel.power_profile[i], last.called_with.power_profile[i])
        /\ last.called_with.rice_factors = channel.rice_factors
        /\ last.called_with.gain = channel.gain
        /\ last.called_with.num_sinusoids = channel.num_sinusoids
        /\ last.called_with.los_angle = channel.los_angle
        /\ last.called_with.doppler_frequency = channel.doppler_frequency
        /\ last.called_with.los_doppler_frequency = LosDopplerFrequency(channel)
        /\ last.called_with.interpolate_signals = channel.interpolate_signals

---------------------------------------------------------------------------
(* Sampling rate and failures of the synthesis: C16, C18, checked under    *)
(* SpecIR                                                                  *)

\* the gaps, in ticks, between the delays of two different paths
Gaps ==
    {channel.delays[q] - channel.delays[p] :
        <<p, q>> \in {pq \in (1..Len(channel.delays)) \X (1..Len(channel.delays)) :
                        pq[1] < pq[2]}}

\* C16: for a channel of two or more paths read without interpolation,
\* min_sampling_rate is (1 - 0.4) divided by the smallest gap between two
\* delays when the delays are pairwise distinct; it is 0 when interpolation is
\* enabled, and when two paths have the same delay.
C16_MinSamplingRate ==
    (last.op = "min_sampling_rate") =>
        /\ (channel.impulse_response_interpolation \/ 0 \in Gaps) =>
              (last.raised = "none" /\ last.num = 0)
        /\ (~channel.impulse_response_interpolation /\ Gaps # {} /\ 0 \notin Gaps) =>
              /\ last.raised = "none"
              /\ last.den > 0
              /\ \E gap \in Gaps :
                    /\ \A other \in Gaps : gap <= other
                    /\ last.num * 10 * gap = 6 * TicksPerUnit * last.den

\* min_sampling_rate was read without interpolation from two paths of
\* distinct delays and gave a rate above zero
C16_Witness ==
    /\ last.op = "min_sampling_rate"
    /\ ~channel.impulse_response_interpolation
    /\ Len(channel.delays) = 2
    /\ 0 \notin Gaps
    /\ last.raised = "none"
    /\ last.num > 0

\* C18 as stated: on a channel with as many receive as transmit antennas,
\* whatever configuration the constructor and the setters accepted,
\* impulse_response returns a tensor or raises ValueError, nothing else.
C18_OnlyValidationErrors ==
    (last.op = "impulse_response" /\ channel.num_rx = channel.num_tx) =>
        last.raised \in {"none", "ValueError"}

---------------------------------------------------------------------------
(* Block interleaver: C21, checked under SpecInterleaver *)

\* the blocks of a list one after the other
RECURSIVE Flatten(_)
Flatten(blocks) ==
    IF blocks = <<>> THEN <<>> ELSE Head(blocks) \o Flatten(Tail(blocks))

\* data blocks were interleaved and the code blocks deinterleaved again
Deinterleaved == last.op = "decode" /\ ~last.skipped

\* C21 as stated: decode(encode(blocks)) is the list of data blocks encode was
\* given, whenever every block length is a multiple of k = M * N.
C21_DecodeReturnsBlocks ==
    Deinterleaved => last.decoded_bits = last.data_bits

\* C21 amended: encode writes every k = M * N bits of the data row by row into
\* an M x N matrix and reads it column by column (for M = 2, N = 6 the block
\* 0..11 becomes 0,6,1,7,2,8,3,9,4,10,5,11) and appends a block of zeros
\* shorter than k; decode drops that block and inverts the permutation.  For
\* block lengths that are multiples of k, decode(encode(blocks)) holds the
\* data bits in order, cut into blocks of k bits: it is the list of blocks
\* given when every block has exactly k bits, while a block of more than k
\* bits comes back as several blocks and an empty block does not come back.
C21_DecodeReturnsBitsInBlocksOfK ==
    Deinterleaved =>
        LET k == channel.params.M * channel.params.N
            data == Flatten(last.data_bits)
            code == last.encoded_bits
            pad == code[Len(code)]
        IN  /\ Len(code) = Len(data) \div k + 1
            /\ Len(pad) < k
            /\ Len(pad) = channel.bits_in_frame % k
            /\ \A i \in 1..Len(pad) : pad[i] = 0
            /\ \A c \in 1..(Len(code) - 1) :
                  /\ Len(code[c]) = k
                  /\ \A row \in 0..(channel.params.M - 1) :
                        \A col \in 0..(channel.params.N - 1) :
                            code[c][col * channel.params.M + row + 1]
                                = data[(c - 1) * k + row * channel.params.N + col + 1]
            /\ Len(last.decoded_bits) = Len(code) - 1
            /\ \A c \in 1..Len(last.decoded_bits) :
                  last.decoded_bits[c] = SubSeq(data, (c - 1) * k + 1, c * k)
            /\ (\A b \in 1..Len(last.data_bits) : Len(last.data_bits[b]) = k)
                  => last.decoded_bits = last.data_bits
            /\ (/\ channel.params.M = 2
                /\ channel.params.N = 6
                /\ Len(data) >= 12
                /\ SubSeq(data, 1, 12) = <<0, 1, 2, 3, 4, 5, 6, 7, 8, 9, 10, 11>>)
                  => code[1] = <<0, 6, 1, 7, 2, 8, 3, 9, 4, 10, 5, 11>>

\* a block of 2k bits and a block of k bits went through a 2 x 3 interleaver
\* and came back as three blocks of k bits
C21_Witness ==
    /\ Deinterleaved
    /\ channel.params.M = 2
    /\ channel.params.N = 3
    /\ Len(last.data_bits) = 2
    /\ Len(last.data_bits[1]) = 12
    /\ Len(last.data_bits[2]) = 6
    /\ Len(last.decoded_bits) = 3
    /\ last.encoded_bits[1] # last.decoded_bits[1]

---------------------------------------------------------------------------
(* Order of the draws: C23, checked under SpecLinks *)

\* the value of the n-th draw from a stream in state rng
Draw(rng, n) == Uniform(Advance(rng, n - 1)).value

\* the draws one tap generation of instance i takes: the angles and the
\* phases of the sinusoids, an angle unless one is configured, and a phase
DrawsOfTap(i) ==
    2 * channel[i].num_sinusoids + (IF channel[i].los_angle = None THEN 2 ELSE 1)

\* the stream after taps tap generations of draws draws each
RECURSIVE AfterTaps(_, _, _)
AfterTaps(rng, taps, draws) ==
    IF taps <= 0
    THEN rng
    ELSE CHOOSE r \in {Advance(prev, draws) :
                          prev \in {AfterTaps(rng, taps - 1, draws)}} : TRUE

\* the fading sequence generated from the stream in state rng takes its
\* parameters from the draws in the order of the claim
DrawnInOrder(i, rng) ==
    LET tap == Tap(channel[i], rng, Sqrt(1, 1), Sqrt(0, 1))
        num == channel[i].num_sinusoids
    IN  /\ Len(tap.nlos_angles) = num
        /\ Len(tap.nlos_phases) = num
        /\ \A s \in 1..num : tap.nlos_angles[s] = Draw(rng, s)
        /\ \A s \in 1..num : tap.nlos_phases[s] = Draw(rng, num + s)
        /\ tap.los_angle = IF channel[i].los_angle = None
                           THEN Draw(rng, 2 * num + 1)
                           ELSE channel[i].los_angle[1]
        /\ tap.los_phase = Draw(rng, DrawsOfTap(i))

\* C23: every tap generation draws num_sinusoids angles, then num_sinusoids
\* phases, then a line-of-sight angle unless one is configured, then a
\* line-of-sight phase, 2 * num_sinusoids + 2 or 2 * num_sinusoids + 1 draws;
\* a call of impulse_response that returns has generated num_paths * num_tx *
\* num_rx taps one after the other from the stream, those of a path before
\* those of a path of larger delay, and deposited each.
C23_DrawsInOrder ==
    \A i \in 1..2 : \A k \in Returns(i, "impulse_response") :
        LET call == last[i][k]
            writes == call.result.writes
        IN  /\ Len(writes) = channel[i].num_resolvable_paths
                                * channel[i].num_tx * channel[i].num_rx
            /\ call.after = AfterTaps(call.before, Len(writes), DrawsOfTap(i))
            /\ \A a, b \in 1..Len(writes) :
                  a < b => writes[a].path_idx <= writes[b].path_idx
            /\ \A p \in 1..channel[i].num_resolvable_paths :
                  Cardinality({a \in 1..Len(writes) : writes[a].path_idx = p})
                      = channel[i].num_tx * channel[i].num_rx
            /\ \A a \in 1..Len(writes) :
                  \E start \in {AfterTaps(call.before, a - 1, DrawsOfTap(i))} :
                      /\ DrawnInOrder(i, start)
                      /\ \E idx \in DOMAIN call.result.tensor :
                            /\ idx[2] = writes[a].rx_idx
                            /\ idx[3] = writes[a].tx_idx
                            /\ \E j \in 1..Len(call.result.tensor[idx].sum) :
                                  /\ call.result.tensor[idx].sum[j].weight.path_idx
                                        = writes[a].path_idx
                                  /\ call.result.tensor[idx].sum[j].weight.rng = start

\* a channel of two paths and two antennas on either side has returned a
\* tensor of eight taps, and so has the channel it was derived from, which
\* draws its line-of-sight angles
C23_Witness ==
    /\ channel[1].num_resolvable_paths = 2
    /\ channel[2].num_tx = 2
    /\ channel[2].num_rx = 2
    /\ 1 \in Returns(2, "impulse_response")
    /\ Len(last[2][1].result.writes) = 8
    /\ \E k \in Returns(1, "impulse_response") : channel[1].los_angle = None

---------------------------------------------------------------------------
(* WaveformGenerator: C24, C30, checked under SpecWaveform *)

\* C24: synchronize raises ValueError unless the signal has num_samples +
\* num_delay_taps - 1 samples and the channel state one receive stream;
\* otherwise it returns floor(len(signal) / samples_in_frame) frames in
\* order, frame i holding the signal samples [i*F, (i+1)*F) and a slice of
\* the channel state covering the same F time samples.
C24_FramesWithTheirState ==
    last.op = "synchronize" =>
        LET F == channel.samples_in_frame
            accepted ==
                /\ Len(last.signal) = NumSamples(last.channel_state)
                                        + last.channel_state.num_delay_taps - 1
                /\ last.channel_state.num_receive_streams = 1
        IN  /\ last.raised = (IF accepted THEN "none" ELSE "ValueError")
            /\ accepted =>
                /\ Len(last.frames) = Len(last.signal) \div F
                /\ \A f \in 1..Len(last.frames) :
                      /\ last.frames[f][1] = Arange((f - 1) * F, F)
                      /\ last.frames[f][2].samples = Arange((f - 1) * F, F)

\* a power of two, and the exponent of one
RECURSIVE IsPowerOfTwo(_)
IsPowerOfTwo(m) ==
    IF m <= 0 THEN FALSE
    ELSE IF m = 1 THEN TRUE
    ELSE m % 2 = 0 /\ IsPowerOfTwo(m \div 2)

RECURSIVE Log2(_)
Log2(m) == IF m <= 1 THEN 0 ELSE 1 + Log2(m \div 2)

\* C30: the modulation order is a positive power of two in every state, and
\* bits_per_symbol is the number b of bits of one symbol, 2^b = modulation_order.
C30_BitsPerSymbolIsLog2 ==
    /\ IsPowerOfTwo(channel.modulation_order)
    /\ last.op = "bits_per_symbol" =>
          \* b = 2^two_to is the exponent of the order: the exponent is a
          \* power of two and two_to is the exponent of that
          /\ IsPowerOfTwo(Log2(channel.modulation_order))
          /\ last.bits_per_symbol.two_to = Log2(Log2(channel.modulation_order))

---------------------------------------------------------------------------
(* RepetitionEncoder: C25, C26, C29, checked under SpecRepetition *)

\* the encoder is in a configuration the constructor accepts
AcceptedByConstructor ==
    ~RepetitionInitRaises(channel.bit_block_size, channel.repetitions,
                          channel.code_block_size)

\* C25: for every configuration the constructor accepts, code_block_size =
\* bit_block_size * repetitions included, encode of a block of
\* bit_block_size bits returns code_block_size bits: every data bit
\* repetitions times, then zeros.
C25_EncodeRepeatsAndPads ==
    (last.op = "encode" /\ AcceptedByConstructor) =>
        /\ last.raised = "none"
        /\ Len(last.code) = channel.code_block_size
        /\ \A i \in 1..channel.code_block_size :
              last.code[i] =
                  IF i <= channel.bit_block_size * channel.repetitions
                  THEN last.bits[((i - 1) \div channel.repetitions) + 1]
                  ELSE 0

\* C26: in every state of an encoder, bit_block_size * repetitions is at most
\* code_block_size and each of the three is at least one.
C26_GeneratedBitsFit ==
    /\ channel.bit_block_size >= 1
    /\ channel.repetitions >= 1
    /\ channel.code_block_size >= 1
    /\ channel.bit_block_size * channel.repetitions <= channel.code_block_size

\* C29: for every configuration the constructor accepts and every block of
\* bit_block_size bits, decode of the encoded block returns the block.
C29_DecodeInvertsEncode ==
    (last.op = "decode" /\ AcceptedByConstructor) =>
        /\ last.raised = "none"
        /\ last.decoded = last.bits

---------------------------------------------------------------------------
(* Executable: C27, checked under SpecExecutable *)

\* C27: execute() runs run() under the style configured on the instance, the
\* one its setter last accepted; an assignment the setter rejects leaves the
\* configured style as it was.
C27_RunsUnderConfiguredStyle ==
    /\ last.op = "execute" => last.run_style = Style(channel, last.self)
    /\ (last.op = "style" /\ last.raised = "ValueError") => last.after = last.before
    /\ (last.op = "style" /\ last.raised = "none") => last.after = last.value

---------------------------------------------------------------------------
(* Sampling rate of every accepted path set: C28, checked under SpecIR *)

\* C28: for every channel the constructor accepts, a single path read
\* without interpolation included, min_sampling_rate raises nothing and
\* returns a finite number that is not negative.
C28_MinSamplingRateReturns ==
    last.op = "min_sampling_rate" =>
        /\ last.raised = "none"
        /\ last.den > 0
        /\ last.num >= 0

====
